---- MODULE Spec2Model ----
(***************************************************************************)
(* Model of the Telegram property bot: the webhook handler and             *)
(* processMessage of server.js, wired (server.js:14) to the Airtable       *)
(* session/record store of airtableConfig.js.                              *)
(*                                                                         *)
(* A text is a sequence of one-character strings.  A JavaScript value is a *)
(* tagged record (Str, Num, NaN, Null, Arr).  An object is a function from *)
(* its own property names to values; {} is the empty function << >>.       *)
(***************************************************************************)
EXTENDS Integers, Sequences, FiniteSets, TLC

VARIABLES
    sessions,           \* Airtable table 'User Sessions': sequence of rows
    properties,         \* Airtable table 'Properties': sequence of records
    processedMessages,  \* the in-process Set of seen message ids
    task,               \* one record per webhook delivery, in arrival order
    now,                \* wall clock, in milliseconds
    ticks,              \* how often the clock has jumped
    cycle,              \* history, per chat: records created since the last "yes"
    keyed,              \* the earlier webhook's ordered Set of message keys
    flaky               \* environment: may a failed attempt be followed by a success

vars ==
    <<sessions, properties, processedMessages, task, now, ticks, cycle, keyed,
      flaky>>

----------------------------------------------------------------------------
(* Bounds of the model *)

MaxDeliveries == 2
MaxSeqDeliveries == 1
MaxScenarioFailures == 1
MaxTicks == 1
MaxIds == 1001
MaxKeys == 1002
MaxRetryDeliveries == 1
MaxMalformedDeliveries == 2
MaxLiveDeliveries == 1

(* Program constants *)

MAX_RETRIES == 3
SEND_MAX_RETRIES == 3
CAPACITY == 1000
SESSION_TIMEOUT == 30 * 60 * 1000
TICK == 31 * 60 * 1000

Chats == {1, 2}

(* message.chat.id of a message whose chat object has no id: undefined *)
NoChatId == 0

----------------------------------------------------------------------------
(* JavaScript values *)

Str(s) == [str |-> s]
Num(n) == [num |-> n]
Arr(a) == [arr |-> a]
NaN == [nan |-> TRUE]
Null == [null |-> TRUE]
Undefined == [undefined |-> TRUE]

EmptyData == << >>

Has(obj, k) == k \in DOMAIN obj

Get(obj, k) == IF Has(obj, k) THEN obj[k] ELSE Undefined

SetField(obj, k, v) ==
    [f \in (DOMAIN obj) \cup {k} |-> IF f = k THEN v ELSE obj[f]]

(* JSON.stringify followed by JSON.parse of an object of the model's values:
   NaN is written as null; a property whose value is undefined is left out;
   strings, integers and arrays come back as they were. *)
JSONValue(v) == IF v = NaN THEN Null ELSE v

JSONstringify(obj) ==
    [k \in {f \in DOMAIN obj : obj[f] # Undefined} |-> JSONValue(obj[k])]

JSONparse(json) == json

----------------------------------------------------------------------------
(* String.prototype.toLowerCase and parseInt *)

UpperChars == <<"A","B","C","D","E","F","G","H","I","J","K","L","M",
                "N","O","P","Q","R","S","T","U","V","W","X","Y","Z">>
LowerChars == <<"a","b","c","d","e","f","g","h","i","j","k","l","m",
                "n","o","p","q","r","s","t","u","v","w","x","y","z">>

LowerChar(c) ==
    IF \E i \in 1..26 : UpperChars[i] = c
    THEN LowerChars[CHOOSE i \in 1..26 : UpperChars[i] = c]
    ELSE c

toLowerCase(s) == [i \in 1..Len(s) |-> LowerChar(s[i])]

DigitChars == <<"0","1","2","3","4","5","6","7","8","9">>

IsDigit(c) == \E i \in 1..10 : DigitChars[i] = c

DigitVal(c) == (CHOOSE i \in 1..10 : DigitChars[i] = c) - 1

RECURSIVE SkipSpaces(_, _)
SkipSpaces(s, i) ==
    IF i <= Len(s) /\ s[i] = " " THEN SkipSpaces(s, i + 1) ELSE i

RECURSIVE ParseDigits(_, _, _)
ParseDigits(s, i, acc) ==
    IF i <= Len(s) /\ IsDigit(s[i])
    THEN ParseDigits(s, i + 1, acc * 10 + DigitVal(s[i]))
    ELSE acc

(* parseInt(text) without a radix, for texts that do not start with "0x":
   leading blanks, an optional sign, then the longest run of decimal digits;
   NaN when there is no digit there. *)
parseInt(s) ==
    LET i0 == SkipSpaces(s, 1)
        signed == i0 <= Len(s) /\ s[i0] \in {"+", "-"}
        i1 == IF signed THEN i0 + 1 ELSE i0
        sign == IF signed /\ s[i0] = "-" THEN -1 ELSE 1
    IN  IF i1 <= Len(s) /\ IsDigit(s[i1])
        THEN Num(sign * ParseDigits(s, i1, 0))
        ELSE NaN

----------------------------------------------------------------------------
(* Texts *)

T_yes == <<"y","e","s">>
T_YES == <<"Y","E","S">>
T_no == <<"n","o">>
T_No == <<"N","o">>
T_done == <<"d","o","n","e">>
T_Done == <<"D","o","n","e">>
T_maybe == <<"m","a","y","b","e">>
T_12a == <<"1","2","a">>
T_empty == << >>
T_hi == <<"h","i">>
T_address == <<"1","2","3"," ","M","a","i","n"," ","S","t">>
T_zip == <<"1","0","0","0","1">>
T_3 == <<"3">>
T_2 == <<"2">>
T_120 == <<"1","2","0">>
T_500000 == <<"5","0","0","0","0","0">>
T_pool == <<"p","o","o","l">>

----------------------------------------------------------------------------
(* Bounded retry: withRetry (airtableConfig.js) and the loop of
   sendTelegramMessage (server.js).  outcomes[i] says whether the i-th attempt
   of the call would succeed. *)

(* In a flaky environment every attempt may fail or succeed on its own.
   Otherwise a call succeeds at once or fails for good: what the program
   stores and sends after a call depends only on whether the call succeeded,
   so this leaves out no state of the tables or of a delivery. *)
Outcomes ==
    IF flaky THEN [1..MAX_RETRIES -> BOOLEAN]
    ELSE {[i \in 1..MAX_RETRIES |-> b] : b \in BOOLEAN}

(* The sendMessage request carries chat_id: without a chat id Telegram
   rejects every attempt. *)
SendOutcomes(chatId) ==
    IF chatId = NoChatId THEN {o \in Outcomes : \A i \in 1..MAX_RETRIES : ~o[i]}
    ELSE Outcomes

RECURSIVE RetryLoop(_, _, _)
RetryLoop(outcomes, i, maxRetries) ==
    IF i >= maxRetries THEN [ok |-> FALSE, attempts |-> i]
    ELSE IF outcomes[i + 1] THEN [ok |-> TRUE, attempts |-> i + 1]
    ELSE RetryLoop(outcomes, i + 1, maxRetries)

withRetry_Once(outcomes) == RetryLoop(outcomes, 0, 1)

withRetry(outcomes) == RetryLoop(outcomes, 0, MAX_RETRIES)

sendTelegramMessage(outcomes) == RetryLoop(outcomes, 0, SEND_MAX_RETRIES)

----------------------------------------------------------------------------
(* The conversation: processMessage (server.js:247-344) up to its first
   await.  The result names the calls the branch makes, in the order it makes
   them: effect (addProperty or handleImage, before the reply), the reply,
   and the session write (write, state, data). *)

CollectionStates ==
    <<"awaiting_address", "awaiting_zip", "awaiting_bedrooms",
      "awaiting_bathrooms", "awaiting_size", "awaiting_price",
      "awaiting_amenities">>

CollectionFields ==
    <<"address", "zip", "bedrooms", "bathrooms", "size", "price", "amenities">>

NumericFields == {"bedrooms", "bathrooms", "size", "price"}

CollectionReplies ==
    <<"ask_zip", "ask_bedrooms", "ask_bathrooms", "ask_size", "ask_price",
      "ask_amenities", "summary">>

StateAfter_Stays(i) == CollectionStates[i]

StateAfter_SkipsAmenities(i) ==
    IF i < Len(CollectionStates) - 1 THEN CollectionStates[i + 1]
    ELSE "awaiting_confirmation"

StateAfter_SkipsConfirmation(i) ==
    IF i < Len(CollectionStates) THEN CollectionStates[i + 1]
    ELSE "awaiting_images"

StateAfter(i) ==
    IF i < Len(CollectionStates) THEN CollectionStates[i + 1]
    ELSE "awaiting_confirmation"

IndexOf(seq, x) == CHOOSE i \in 1..Len(seq) : seq[i] = x

Plan(effect, reply, write, state, data) ==
    [effect |-> effect, reply |-> reply, write |-> write, state |-> state,
     data |-> data]

FieldValue_AsText(field, text) == Str(text)

FieldValue(field, text) ==
    IF field \in NumericFields THEN parseInt(text) ELSE Str(text)

processConfirmation_KeepsData(collectedData, text) ==
    IF toLowerCase(text) = T_yes
    THEN Plan("none", "ask_images", TRUE, "awaiting_images", collectedData)
    ELSE Plan("none", "start_over", TRUE, "awaiting_address", collectedData)

processConfirmation_CaseSensitive(collectedData, text) ==
    IF text = T_yes
    THEN Plan("none", "ask_images", TRUE, "awaiting_images", collectedData)
    ELSE Plan("none", "start_over", TRUE, "awaiting_address", EmptyData)

processConfirmation(collectedData, text) ==
    IF toLowerCase(text) = T_yes
    THEN Plan("none", "ask_images", TRUE, "awaiting_images", collectedData)
    ELSE Plan("none", "start_over", TRUE, "awaiting_address", EmptyData)

processImages_KeepsData(collectedData, text, photo) ==
    IF toLowerCase(text) = T_done
    THEN Plan("addProperty", "saved", TRUE, "initial", collectedData)
    ELSE IF photo
    THEN Plan("handleImage", "photo_ok", TRUE, "awaiting_images", collectedData)
    ELSE Plan("none", "reprompt_images", FALSE, "awaiting_images", collectedData)

processImages_RestartsOnText(collectedData, text, photo) ==
    IF toLowerCase(text) = T_done
    THEN Plan("addProperty", "saved", TRUE, "initial", EmptyData)
    ELSE IF photo
    THEN Plan("handleImage", "photo_ok", TRUE, "awaiting_images", collectedData)
    ELSE Plan("none", "start_over", TRUE, "awaiting_address", EmptyData)

(* Variant: 'done' keeps the address for the next listing. *)
processImages_ResetKeepsAddress(collectedData, text, photo) ==
    IF toLowerCase(text) = T_done
    THEN Plan("addProperty", "saved", TRUE, "initial",
              [k \in DOMAIN collectedData \cap {"address"} |-> collectedData[k]])
    ELSE IF photo
    THEN Plan("handleImage", "photo_ok", TRUE, "awaiting_images", collectedData)
    ELSE Plan("none", "reprompt_images", FALSE, "awaiting_images", collectedData)

processImages(collectedData, text, photo) ==
    IF toLowerCase(text) = T_done
    THEN Plan("addProperty", "saved", TRUE, "initial", EmptyData)
    ELSE IF photo
    THEN Plan("handleImage", "photo_ok", TRUE, "awaiting_images", collectedData)
    ELSE Plan("none", "reprompt_images", FALSE, "awaiting_images", collectedData)

processMessage(currentState, collectedData, text, photo) ==
    IF currentState = "initial"
    THEN Plan("none", "welcome", TRUE, "awaiting_address", collectedData)
    ELSE IF \E i \in 1..Len(CollectionStates) : CollectionStates[i] = currentState
    THEN LET i == IndexOf(CollectionStates, currentState)
             field == CollectionFields[i]
         IN  Plan("none", CollectionReplies[i], TRUE, StateAfter(i),
                  SetField(collectedData, field, FieldValue(field, text)))
    ELSE IF currentState = "awaiting_confirmation"
    THEN processConfirmation(collectedData, text)
    ELSE IF currentState = "awaiting_images"
    THEN processImages(collectedData, text, photo)
    ELSE Plan("none", "restart", TRUE, "awaiting_address", EmptyData)

(* collectedData.imageUrl = collectedData.imageUrl || []; push(result.imageUrl) *)
PushImageUrl_Prepends(collectedData, url) ==
    LET old == IF Has(collectedData, "imageUrl") /\ collectedData["imageUrl"] # Null
               THEN collectedData["imageUrl"].arr ELSE << >>
    IN  SetField(collectedData, "imageUrl", Arr(<<url>> \o old))

PushImageUrl(collectedData, url) ==
    LET old == IF Has(collectedData, "imageUrl") /\ collectedData["imageUrl"] # Null
               THEN collectedData["imageUrl"].arr ELSE << >>
    IN  SetField(collectedData, "imageUrl", Arr(Append(old, url)))

----------------------------------------------------------------------------
(* The Airtable tables (airtableConfig.js) *)

SessionRow(id, state, data, lastMessage, at) ==
    [Telegram_ID |-> id, Current_State |-> state,
     Collected_Data |-> JSONstringify(data), Last_Message |-> lastMessage,
     Last_Updated |-> at]

(* select({filterByFormula: {Telegram_ID} = id}).firstPage(): the matching
   rows, in table order; records[0] is the first of them. *)
Matching(table, id) == {i \in 1..Len(table) : table[i].Telegram_ID = id}

FirstMatch(table, id) ==
    IF Matching(table, id) = {} THEN 0
    ELSE CHOOSE i \in Matching(table, id) : \A j \in Matching(table, id) : i <= j

(* userSession.Current_State || 'initial' and
   JSON.parse(userSession.Collected_Data || '{}') *)
CurrentState_NoDefault(userSession) == userSession.Current_State

CurrentState(userSession) ==
    IF userSession.Current_State = "" THEN "initial"
    ELSE userSession.Current_State

CollectedData(userSession) == JSONparse(userSession.Collected_Data)

(* The fields addProperty sends to propertiesTable.create: a field whose
   source property is undefined is not sent. *)
PropertyFields(propertyData, at) ==
    JSONstringify(
        [Telegram_ID |-> Get(propertyData, "telegramId"),
         User_Name |-> Get(propertyData, "userName"),
         Property_Type |-> Get(propertyData, "propertyType"),
         Address |-> Get(propertyData, "address"),
         ZIP |-> Get(propertyData, "zip"),
         Size_sqm |-> Get(propertyData, "size"),
         Bedrooms |-> Get(propertyData, "bedrooms"),
         Bathrooms |-> Get(propertyData, "bathrooms"),
         Price |-> Get(propertyData, "price"),
         Amenities |-> Get(propertyData, "amenities"),
         Image_URL |-> Get(propertyData, "imageUrl"),
         Created_At |-> Num(at),
         Updated_At |-> Num(at)])

(* { telegramId: chatId.toString(), ...collectedData } *)
ListingData(chatId, collectedData) ==
    [k \in {"telegramId"} \cup DOMAIN collectedData |->
        IF k \in DOMAIN collectedData THEN collectedData[k] ELSE Str(chatId)]

(* { propertyId, imageUrls: [url] }, what handleImage hands to addProperty *)
ImageData(propertyId, url) ==
    [propertyId |-> Str(propertyId), imageUrls |-> Arr(<<url>>)]

----------------------------------------------------------------------------
(* Deliveries and their processing tasks *)

NoSession == [none |-> TRUE]
NoPlan == [none |-> TRUE]

Input(kind, text) == [kind |-> kind, text |-> text]

Photo == Input("photo", T_empty)

Url(d) == [url |-> d]

NoCall == [none |-> TRUE]

(* error.message of what a delivery's processing threw: the text of the
   backend or network error, the message getUserSession throws for a missing
   table (airtableConfig.js:146), or the message handleImage throws *)
NoError == "no_error"
RawError == "raw_error_detail"
TablesNotFound == "Airtable tables not found"
PhotoError == "photo_error"

(* The texts the two catch blocks of the webhook send *)
SessionErrorText(error) == IF error = TablesNotFound THEN "setup" ELSE "hiccup"

ApologyText_Raw(error) == error

ApologyText(error) == "apology"

(* The record of a call: the operation, what each attempt would do, the
   attempts made and the result. *)
Called(op, outcomes, r) ==
    [op |-> op, outcomes |-> outcomes, attempts |-> r.attempts, ok |-> r.ok]

(* A delivery remembers the last retried call it made. *)
AfterCall(t, op, outcomes, r) == [t EXCEPT !.call = Called(op, outcomes, r)]

NewTask(chatId, messageId, input) ==
    [pc |-> "none", chat |-> chatId, mid |-> messageId, text |-> input.text,
     photo |-> (input.kind = "photo"), acked |-> FALSE,
     session |-> NoSession, readAt |-> 0, plan |-> NoPlan, found |-> 0,
     sent |-> << >>, writes |-> 0, recs |-> 0, uploads |-> 0,
     sends |-> 0, sendFailedAt |-> 0, call |-> NoCall, created |-> FALSE,
     putAt |-> 0, error |-> NoError]

Finished == {"done", "failed", "duplicate", "dropped"}

Idle == \A d \in 1..Len(task) : task[d].pc \in Finished

(* Stored sessions the program writes: state s with the fields collected
   before s, here with the values of the README scenario. *)
ScenarioValues ==
    <<Str(T_address), Str(T_zip), Num(3), Num(2), Num(120), Num(500000),
      Str(T_pool)>>

ScenarioData(n) ==
    [f \in {CollectionFields[i] : i \in 1..n} |->
        ScenarioValues[IndexOf(CollectionFields, f)]]

StartSessions ==
    {SessionRow(1, "initial", EmptyData, T_empty, 0)}
    \cup {SessionRow(1, CollectionStates[i], ScenarioData(i - 1), T_hi, 0) :
            i \in 1..Len(CollectionStates)}
    \cup {SessionRow(1, s, ScenarioData(7), T_hi, 0) :
            s \in {"awaiting_confirmation", "awaiting_images"}}
    \cup {SessionRow(1, "awaiting_images",
                     PushImageUrl(ScenarioData(7), Url(0)), T_empty, 0)}

StartTables == {<< >>} \cup {<<row>> : row \in StartSessions}

ConcStartTables ==
    {<< >>} \cup {<<row>> : row \in {r \in StartSessions :
        /\ r.Current_State \in
              {"awaiting_bedrooms", "awaiting_confirmation", "awaiting_images"}
        /\ ~Has(r.Collected_Data, "imageUrl")}}

NoKeys == [seen |-> << >>, history |-> << >>, last |-> [none |-> TRUE]]

InitOf(table, env) ==
    /\ sessions = table
    /\ properties = << >>
    /\ processedMessages = {}
    /\ task = << >>
    /\ now = 0
    /\ ticks = 0
    /\ cycle = [c \in Chats \cup {NoChatId} |-> 0]
    /\ keyed = NoKeys
    /\ flaky = env

InitWith(table) == InitOf(table, FALSE)

Init == \E table \in ConcStartTables : InitWith(table)

InitSeq == \E table \in StartTables : InitWith(table)

InitScenario == InitWith(<< >>)

----------------------------------------------------------------------------
(* app.post('/telegram-webhook') (server.js:353-447), up to setImmediate *)

Webhook_AcksOnlyDrops(chatId, messageId, input) ==
    LET t == NewTask(chatId, messageId, input)
        pc == IF input.kind \in {"no_message", "no_chat"} THEN "dropped"
              ELSE "scheduled"
    IN  /\ task' = Append(task, [t EXCEPT !.pc = pc, !.acked = (pc = "dropped")])
        /\ UNCHANGED <<sessions, properties, processedMessages, now, ticks, keyed, flaky, cycle>>

Webhook(chatId, messageId, input) ==
    LET t == NewTask(chatId, messageId, input)
        pc == IF input.kind \in {"no_message", "no_chat"} THEN "dropped"
              ELSE "scheduled"
    IN  /\ task' = Append(task, [t EXCEPT !.pc = pc, !.acked = TRUE])
        /\ UNCHANGED <<sessions, properties, processedMessages, now, ticks, keyed, flaky, cycle>>

(* The setImmediate callback up to its first await: the duplicate check and
   the call of getUserSession.  Callbacks run in the order they were queued. *)
Filter_Forgets(d) ==
    /\ task[d].pc = "scheduled"
    /\ \A e \in 1..(d - 1) : task[e].pc # "scheduled"
    /\ IF task[d].mid \in processedMessages
       THEN /\ task' = [task EXCEPT ![d].pc = "duplicate"]
            /\ UNCHANGED processedMessages
       ELSE /\ UNCHANGED processedMessages
            /\ task' = [task EXCEPT ![d].pc = "get_select"]
    /\ UNCHANGED <<sessions, properties, now, ticks, keyed, flaky, cycle>>

(* Variant: the id is taken as seen only once the callback that added it is
   past its first await. *)
Filter_MarksAfterAwait(d) ==
    /\ task[d].pc = "scheduled"
    /\ \A e \in 1..(d - 1) : task[e].pc # "scheduled"
    /\ IF /\ task[d].mid \in processedMessages
          /\ \A e \in 1..(d - 1) :
                task[e].mid = task[d].mid => task[e].pc # "get_select"
       THEN /\ task' = [task EXCEPT ![d].pc = "duplicate"]
            /\ UNCHANGED processedMessages
       ELSE /\ processedMessages' = processedMessages \cup {task[d].mid}
            /\ task' = [task EXCEPT ![d].pc = "get_select"]
    /\ UNCHANGED <<sessions, properties, now, ticks, keyed, flaky, cycle>>

Filter(d) ==
    /\ task[d].pc = "scheduled"
    /\ \A e \in 1..(d - 1) : task[e].pc # "scheduled"
    /\ IF task[d].mid \in processedMessages
       THEN /\ task' = [task EXCEPT ![d].pc = "duplicate"]
            /\ UNCHANGED processedMessages
       ELSE /\ processedMessages' = processedMessages \cup {task[d].mid}
            /\ task' = [task EXCEPT ![d].pc = "get_select"]
    /\ UNCHANGED <<sessions, properties, now, ticks, keyed, flaky, cycle>>

(* A call of sendTelegramMessage returned: the delivery counts it, and keeps
   the number of its first call that failed after all its attempts. *)
AfterSend(t, outcomes, r) ==
    [t EXCEPT !.sends = @ + 1,
              !.sendFailedAt = IF ~r.ok /\ @ = 0 THEN t.sends + 1 ELSE @,
              !.call = Called("sendTelegramMessage", outcomes, r)]

(* processMessage is entered with the session getUserSession returned. *)
Entered(t, userSession) ==
    LET plan == processMessage(CurrentState(userSession),
                               CollectedData(userSession), t.text, t.photo)
        pc == IF plan.effect = "addProperty" THEN "add_property"
              ELSE IF plan.effect = "handleImage" THEN "handle_image"
              ELSE "send"
    IN  [t EXCEPT !.pc = pc, !.session = userSession, !.readAt = now,
                  !.plan = plan]

SessionFailed(t, error) ==
    [t EXCEPT !.pc = "session_error",
              !.error = error,
              !.plan = Plan("none", SessionErrorText(error), FALSE, "none",
                            EmptyData)]

(* getUserSession (airtableConfig.js:124-196): the select *)
GetUserSessionSelect(d) ==
    /\ task[d].pc = "get_select"
    /\ \E o \in Outcomes, err \in {"NOT_FOUND", "other"} :
        LET r == withRetry(o)
            i == FirstMatch(sessions, task[d].chat)
            t == AfterCall(task[d], "getUserSession.select", o, r)
        IN  task' = [task EXCEPT ![d] =
                IF ~r.ok
                THEN SessionFailed(t, IF err = "NOT_FOUND" THEN TablesNotFound
                                      ELSE RawError)
                ELSE IF i > 0 THEN Entered(t, sessions[i])
                ELSE [t EXCEPT !.pc = "get_create"]]
    /\ UNCHANGED <<sessions, properties, processedMessages, now, ticks, keyed, flaky, cycle>>

(* getUserSession: no session was found, a new one is created *)
GetUserSessionCreate(d) ==
    /\ task[d].pc = "get_create"
    /\ \E o \in Outcomes :
        LET r == withRetry(o)
            row == SessionRow(task[d].chat, "initial", EmptyData, T_empty, now)
            t == AfterCall(task[d], "getUserSession.create", o, r)
        IN  IF r.ok
            THEN /\ sessions' = Append(sessions, row)
                 /\ task' = [task EXCEPT ![d] =
                        [Entered(t, row) EXCEPT !.writes = @ + 1,
                                                !.created = TRUE]]
            ELSE /\ task' = [task EXCEPT ![d] = SessionFailed(t, RawError)]
                 /\ UNCHANGED sessions
    /\ UNCHANGED <<properties, processedMessages, now, ticks, keyed, flaky, cycle>>

(* The webhook's catch of a getUserSession error: one message, then return *)
(* Variant: the getUserSession error is logged and the callback returns. *)
SessionError_Silent(d) ==
    /\ task[d].pc = "session_error"
    /\ task' = [task EXCEPT ![d].pc = "failed"]
    /\ UNCHANGED <<sessions, properties, processedMessages, now, ticks, keyed, flaky, cycle>>

SessionError(d) ==
    /\ task[d].pc = "session_error"
    /\ \E o \in SendOutcomes(task[d].chat) :
        LET r == sendTelegramMessage(o)
        IN  task' = [task EXCEPT ![d] =
                   IF r.ok
                   THEN [AfterSend(@, o, r) EXCEPT
                            !.pc = "failed", !.sent = Append(@, task[d].plan.reply)]
                   ELSE [AfterSend(@, o, r) EXCEPT !.pc = "apology", !.error = RawError]]
    /\ UNCHANGED <<sessions, properties, processedMessages, now, ticks, keyed, flaky, cycle>>

AddProperty_SwallowsError(d) ==
    /\ task[d].pc = "add_property"
    /\ \E o \in Outcomes :
        LET r == withRetry(o)
            rec == PropertyFields(
                       ListingData(task[d].chat, CollectedData(task[d].session)), now)
            t == AfterCall(task[d], "addProperty.create", o, r)
        IN  IF r.ok
            THEN /\ properties' = Append(properties, rec)
                 /\ cycle' = [cycle EXCEPT ![task[d].chat] = @ + 1]
                 /\ task' = [task EXCEPT ![d] =
                        [t EXCEPT !.pc = "send", !.recs = @ + 1]]
            ELSE /\ task' = [task EXCEPT ![d] = [t EXCEPT !.pc = "send"]]
                 /\ UNCHANGED <<properties, cycle>>
    /\ UNCHANGED <<sessions, processedMessages, now, ticks, keyed, flaky>>

(* processMessage, 'done': addProperty({telegramId, ...collectedData}) *)
AddProperty(d) ==
    /\ task[d].pc = "add_property"
    /\ \E o \in Outcomes :
        LET r == withRetry(o)
            rec == PropertyFields(
                       ListingData(task[d].chat, CollectedData(task[d].session)), now)
            t == AfterCall(task[d], "addProperty.create", o, r)
        IN  IF r.ok
            THEN /\ properties' = Append(properties, rec)
                 /\ cycle' = [cycle EXCEPT ![task[d].chat] = @ + 1]
                 /\ task' = [task EXCEPT ![d] =
                        [t EXCEPT !.pc = "send", !.recs = @ + 1]]
            ELSE /\ task' = [task EXCEPT ![d] = [t EXCEPT !.pc = "apology", !.error = RawError]]
                 /\ UNCHANGED <<properties, cycle>>
    /\ UNCHANGED <<sessions, processedMessages, now, ticks, keyed, flaky>>

(* handleImage(message.photo, chatId) (server.js:187-244) and the push of its
   URL.  stage is the call that fails, or "ok". *)
ImageStages == {"getFile", "download", "upload", "addProperty", "vision", "ok"}

HandleImage_Rethrows(d) ==
    /\ task[d].pc = "handle_image"
    /\ \E stage \in ImageStages :
        LET url == Url(d)
            rec == PropertyFields(ImageData(task[d].chat, url), now)
        IN  /\ IF stage \in {"vision", "ok"}
               THEN /\ properties' = Append(properties, rec)
                    /\ cycle' = [cycle EXCEPT ![task[d].chat] = @ + 1]
               ELSE UNCHANGED <<properties, cycle>>
            /\ task' = [task EXCEPT ![d] =
                   IF stage = "ok"
                   THEN [@ EXCEPT !.pc = "send", !.recs = @ + 1,
                                  !.uploads = @ + 1,
                                  !.plan.data = PushImageUrl(@, url)]
                   ELSE [@ EXCEPT !.pc = "apology", !.error = RawError,
                                  !.recs = IF stage = "vision" THEN @ + 1 ELSE @,
                                  !.uploads = IF stage \in {"addProperty", "vision"}
                                              THEN @ + 1 ELSE @]]
    /\ UNCHANGED <<sessions, processedMessages, now, ticks, keyed, flaky>>

HandleImage(d) ==
    /\ task[d].pc = "handle_image"
    /\ \E stage \in ImageStages :
        LET url == Url(d)
            rec == PropertyFields(ImageData(task[d].chat, url), now)
        IN  /\ IF stage \in {"vision", "ok"}
               THEN /\ properties' = Append(properties, rec)
                    /\ cycle' = [cycle EXCEPT ![task[d].chat] = @ + 1]
               ELSE UNCHANGED <<properties, cycle>>
            /\ task' = [task EXCEPT ![d] =
                   IF stage = "ok"
                   THEN [@ EXCEPT !.pc = "send", !.recs = @ + 1,
                                  !.uploads = @ + 1,
                                  !.plan.data = PushImageUrl(@, url)]
                   ELSE [@ EXCEPT !.pc = "apology", !.error = PhotoError,
                                  !.recs = IF stage = "vision" THEN @ + 1 ELSE @,
                                  !.uploads = IF stage \in {"addProperty", "vision"}
                                              THEN @ + 1 ELSE @]]
    /\ UNCHANGED <<sessions, processedMessages, now, ticks, keyed, flaky>>

(* processMessage: await sendTelegramMessage(chatId, reply) *)
(* Variant: the error of the reply send is swallowed. *)
SendReply_IgnoresFailure(d) ==
    /\ task[d].pc = "send"
    /\ \E o \in SendOutcomes(task[d].chat) :
        LET r == sendTelegramMessage(o)
            pc == IF task[d].plan.write THEN "upd_select" ELSE "done"
        IN  task' = [task EXCEPT ![d] =
                   IF r.ok
                   THEN [AfterSend(@, o, r) EXCEPT
                            !.pc = pc,
                            !.sent = Append(@, task[d].plan.reply)]
                   ELSE [AfterSend(@, o, r) EXCEPT !.pc = pc]]
    /\ UNCHANGED <<sessions, properties, processedMessages, now, ticks, keyed, flaky, cycle>>

SendReply(d) ==
    /\ task[d].pc = "send"
    /\ \E o \in SendOutcomes(task[d].chat) :
        LET r == sendTelegramMessage(o)
        IN  task' = [task EXCEPT ![d] =
                   IF r.ok
                   THEN [AfterSend(@, o, r) EXCEPT
                            !.pc = IF task[d].plan.write THEN "upd_select" ELSE "done",
                            !.sent = Append(@, task[d].plan.reply)]
                   ELSE [AfterSend(@, o, r) EXCEPT !.pc = "apology", !.error = RawError]]
    /\ UNCHANGED <<sessions, properties, processedMessages, now, ticks, keyed, flaky, cycle>>

(* updateUserSession (airtableConfig.js:199-249): the select *)
UpdateUserSessionSelect(d) ==
    /\ task[d].pc = "upd_select"
    /\ \E o \in Outcomes :
        LET r == withRetry(o)
            t == AfterCall(task[d], "updateUserSession.select", o, r)
        IN  task' = [task EXCEPT ![d] =
                IF r.ok
                THEN [t EXCEPT !.pc = "upd_write",
                               !.found = FirstMatch(sessions, task[d].chat)]
                ELSE [t EXCEPT !.pc = "apology", !.error = RawError]]
    /\ UNCHANGED <<sessions, properties, processedMessages, now, ticks, keyed, flaky, cycle>>

(* The updateUserSession calls completed so far *)
Puts == Cardinality({e \in 1..Len(task) : task[e].putAt > 0})

UpdateUserSessionWrite_FirstWins(d) ==
    /\ task[d].pc = "upd_write"
    /\ \E o \in Outcomes :
        LET r == withRetry(o)
            op == IF task[d].found > 0 THEN "updateUserSession.update"
                  ELSE "updateUserSession.create"
            t == AfterCall(task[d], op, o, r)
            row == SessionRow(t.chat, t.plan.state, t.plan.data, t.text, now)
        IN  IF r.ok
            THEN /\ sessions' = IF t.found = 0 THEN Append(sessions, row)
                                ELSE IF sessions[t.found] # t.session THEN sessions
                                ELSE [sessions EXCEPT ![t.found] = row]
                 /\ cycle' = IF t.plan.reply \in {"ask_images", "saved"}
                             THEN [cycle EXCEPT ![t.chat] = 0] ELSE cycle
                 /\ task' = [task EXCEPT ![d] =
                        [t EXCEPT !.pc = "done", !.writes = @ + 1,
                                  !.putAt = Puts + 1]]
            ELSE /\ task' = [task EXCEPT ![d] = [t EXCEPT !.pc = "apology", !.error = RawError]]
                 /\ UNCHANGED <<sessions, cycle>>
    /\ UNCHANGED <<properties, processedMessages, now, ticks, keyed, flaky>>

(* updateUserSession: update of records[0], or create when none was found *)
UpdateUserSessionWrite(d) ==
    /\ task[d].pc = "upd_write"
    /\ \E o \in Outcomes :
        LET r == withRetry(o)
            op == IF task[d].found > 0 THEN "updateUserSession.update"
                  ELSE "updateUserSession.create"
            t == AfterCall(task[d], op, o, r)
            row == SessionRow(t.chat, t.plan.state, t.plan.data, t.text, now)
        IN  IF r.ok
            THEN /\ sessions' = IF t.found > 0
                                THEN [sessions EXCEPT ![t.found] = row]
                                ELSE Append(sessions, row)
                 /\ cycle' = IF t.plan.reply \in {"ask_images", "saved"}
                             THEN [cycle EXCEPT ![t.chat] = 0] ELSE cycle
                 /\ task' = [task EXCEPT ![d] =
                        [t EXCEPT !.pc = "done", !.writes = @ + 1,
                                  !.putAt = Puts + 1]]
            ELSE /\ task' = [task EXCEPT ![d] = [t EXCEPT !.pc = "apology", !.error = RawError]]
                 /\ UNCHANGED <<sessions, cycle>>
    /\ UNCHANGED <<properties, processedMessages, now, ticks, keyed, flaky>>

Apology_NeverSettles(d) ==
    /\ task[d].pc = "apology"
    /\ \E o \in SendOutcomes(task[d].chat) :
        LET r == sendTelegramMessage(o)
        IN  task' = [task EXCEPT ![d] =
                   IF r.ok
                   THEN [AfterSend(@, o, r) EXCEPT
                            !.pc = "failed",
                            !.sent = Append(@, ApologyText(task[d].error))]
                   ELSE [@ EXCEPT !.pc = "waiting"]]
    /\ UNCHANGED <<sessions, properties, processedMessages, now, ticks, keyed, flaky, cycle>>

(* The webhook's catch of a processing error: the apology *)
(* Variant: a callback that ends in the catch takes its id out of the Set. *)
Apology_Unmarks(d) ==
    /\ task[d].pc = "apology"
    /\ \E o \in SendOutcomes(task[d].chat) :
        LET r == sendTelegramMessage(o)
        IN  task' = [task EXCEPT ![d] =
                   IF r.ok
                   THEN [AfterSend(@, o, r) EXCEPT
                            !.pc = "failed",
                            !.sent = Append(@, ApologyText(task[d].error))]
                   ELSE [AfterSend(@, o, r) EXCEPT !.pc = "failed"]]
    /\ processedMessages' = processedMessages \ {task[d].mid}
    /\ UNCHANGED <<sessions, properties, now, ticks, keyed, flaky, cycle>>

Apology(d) ==
    /\ task[d].pc = "apology"
    /\ \E o \in SendOutcomes(task[d].chat) :
        LET r == sendTelegramMessage(o)
        IN  task' = [task EXCEPT ![d] =
                   IF r.ok
                   THEN [AfterSend(@, o, r) EXCEPT
                            !.pc = "failed",
                            !.sent = Append(@, ApologyText(task[d].error))]
                   ELSE [AfterSend(@, o, r) EXCEPT !.pc = "failed"]]
    /\ UNCHANGED <<sessions, properties, processedMessages, now, ticks, keyed, flaky, cycle>>

Tasks == 1..Len(task)

Steps ==
    \/ \E d \in Tasks : Filter(d)
    \/ \E d \in Tasks : GetUserSessionSelect(d)
    \/ \E d \in Tasks : GetUserSessionCreate(d)
    \/ \E d \in Tasks : SessionError(d)
    \/ \E d \in Tasks : AddProperty(d)
    \/ \E d \in Tasks : HandleImage(d)
    \/ \E d \in Tasks : SendReply(d)
    \/ \E d \in Tasks : UpdateUserSessionSelect(d)
    \/ \E d \in Tasks : UpdateUserSessionWrite(d)
    \/ \E d \in Tasks : Apology(d)

(* Time passes between two events: more than the README's session timeout *)
Tick ==
    /\ Idle
    /\ ticks < MaxTicks
    /\ ticks' = ticks + 1
    /\ now' = now + TICK
    /\ UNCHANGED <<sessions, properties, processedMessages, task, cycle, keyed, flaky>>

----------------------------------------------------------------------------
(* Deliveries may overlap *)

Inputs == {Input("text", T_YES), Input("text", T_Done), Photo}

(* A message id is one of an earlier delivery or the next unused one. *)
MsgIds == 1..(Cardinality({task[d].mid : d \in 1..Len(task)}) + 1)

Deliver ==
    /\ Len(task) < MaxDeliveries
    /\ \E c \in Chats, m \in MsgIds, input \in Inputs : Webhook(c, m, input)

Next == Deliver \/ Steps

Spec == Init /\ [][Next]_vars

(* One delivery at a time: the next arrives when the last has been handled *)

SeqInputs ==
    {Input("text", t) : t \in {T_yes, T_YES, T_No, T_Done, T_maybe, T_12a}}
    \cup {Photo, Input("no_message", T_empty)}

DeliverSeq ==
    /\ Idle
    /\ Len(task) < MaxSeqDeliveries
    /\ \E input \in SeqInputs : Webhook(1, Len(task) + 1, input)

NextSeq == DeliverSeq \/ Steps \/ Tick

SpecSeq == InitSeq /\ [][NextSeq]_vars

(* Rows the program itself never writes: the state cell emptied by hand, and
   rows left by the earlier version of the bot (unnamed/part_003), whose
   states included awaiting_square_meters. *)

LegacySessions ==
    {SessionRow(1, st, data, T_hi, 0) :
        st \in {"", "awaiting_square_meters"},
        data \in {EmptyData, ScenarioData(4)}}

InitLegacy ==
    \E table \in StartTables \cup {<<row>> : row \in LegacySessions} :
        InitWith(table)

SpecLegacy == InitLegacy /\ [][NextSeq]_vars

(* Redeliveries: one chat, whose deliveries repeat a message id or carry
   the next one, and overlap in every way. *)

DupInputs == {Input("text", T_Done), Photo}

DupStartTables ==
    {<< >>, <<SessionRow(1, "awaiting_images", ScenarioData(7), T_hi, 0)>>}

InitDup == \E table \in DupStartTables : InitWith(table)

DeliverDup ==
    /\ Len(task) < MaxDeliveries
    /\ \E m \in MsgIds, input \in DupInputs : Webhook(1, m, input)

NextDup == DeliverDup \/ Steps

SpecDup == InitDup /\ [][NextDup]_vars

(* The README conversation, from an empty table: the user answers each
   prompt in turn and sends an input again when its processing failed. *)

ReadmeScript ==
    <<Input("text", T_hi), Input("text", T_address), Input("text", T_zip),
      Input("text", T_3), Input("text", T_2), Input("text", T_120),
      Input("text", T_500000), Input("text", T_pool), Input("text", T_yes),
      Photo, Photo, Input("text", T_done)>>

(* The same conversation with answers that are commands, empty or not
   numbers. *)
OddScript ==
    <<Input("text", T_Done), Input("text", T_yes), Input("text", T_empty),
      Input("text", T_maybe), Input("text", T_Done), Input("text", T_12a),
      Input("text", T_No), Input("text", T_YES), Input("text", T_YES),
      Photo, Photo, Input("text", T_Done)>>

Scripts == {ReadmeScript, OddScript}

(* The script of a run is the one its first delivery began. *)
Script == CHOOSE s \in Scripts : s[1].text = task[1].text

Completed == Cardinality({d \in 1..Len(task) : task[d].pc = "done"})

(* The deliveries whose processing failed or is failing *)
Failing(tasks) ==
    {d \in 1..Len(tasks) : tasks[d].pc \in {"session_error", "apology", "failed"}}

DeliverScript ==
    /\ Idle
    /\ IF Len(task) = 0
       THEN \E s \in Scripts : Webhook(1, 1, s[1])
       ELSE /\ Completed < Len(Script)
            /\ Webhook(1, Len(task) + 1, Script[Completed + 1])

(* At most MaxScenarioFailures of the conversation's deliveries fail. *)
NextScenario ==
    \/ DeliverScript
    \/ Steps /\ Cardinality(Failing(task')) <= MaxScenarioFailures

SpecScenario == InitScenario /\ [][NextScenario]_vars

(* A long run of one chat: every delivery carries a new message id, is
   processed before the next arrives, and no call fails. *)

InitIds == InitWith(<< >>)

DeliverIds ==
    /\ Idle
    /\ Len(task) < MaxIds
    /\ Webhook(1, Len(task) + 1, Input("text", T_hi))

NextIds ==
    \/ DeliverIds
    \/ Steps /\ Failing(task') = {}

SpecIds == InitIds /\ [][NextIds]_vars

(* The duplicate check of the earlier webhook (airtableConfig.js:597-609):
   a Set of keys chatId-messageId, which JavaScript keeps in insertion
   order, trimmed to the last 1000.  The rest of that handler does not touch
   the Set.  history lists the keys in the order they were added. *)

MessageKey(chatId, messageId) == <<chatId, messageId>>

Range(seq) == {seq[i] : i \in 1..Len(seq)}

(* if (size > 1000) delete Array.from(processedMessages)[0] *)
Evict_Newest(seen) ==
    IF Len(seen) > CAPACITY THEN SubSeq(seen, 1, Len(seen) - 1) ELSE seen

Evict(seen) == IF Len(seen) > CAPACITY THEN Tail(seen) ELSE seen

WebhookKeyed(key) ==
    /\ IF key \in Range(keyed.seen)
       THEN keyed' = [keyed EXCEPT !.last = [key |-> key, dup |-> TRUE]]
       ELSE keyed' = [seen |-> Evict(Append(keyed.seen, key)),
                      history |-> Append(keyed.history, key),
                      last |-> [key |-> key, dup |-> FALSE]]
    /\ UNCHANGED <<sessions, properties, processedMessages, task, now, ticks, cycle,
                   flaky>>

(* A delivery carries a new key, or again the oldest or the newest key of
   the Set, or the key that was dropped last. *)
KeyInputs ==
    LET n == Len(keyed.history)
        m == Len(keyed.seen)
    IN  {MessageKey(1, n + 1)}
        \cup (IF m > 0 THEN {keyed.seen[1], keyed.seen[m]} ELSE {})
        \cup (IF n > m THEN {keyed.history[n - m]} ELSE {})

DeliverKeyed ==
    /\ Len(keyed.history) < MaxKeys
    /\ \E key \in KeyInputs : WebhookKeyed(key)

InitKeyed == InitWith(<< >>)

SpecKeyed == InitKeyed /\ [][DeliverKeyed]_vars

----------------------------------------------------------------------------
(* One event at a time, over a backend whose attempts fail and succeed
   independently *)

RetryStartTables ==
    {<< >>,
     <<SessionRow(1, "awaiting_zip", ScenarioData(1), T_hi, 0)>>,
     <<SessionRow(1, "awaiting_images", ScenarioData(7), T_hi, 0)>>}

RetryInputs == {Input("text", T_12a), Input("text", T_Done), Photo}

InitRetry == \E table \in RetryStartTables : InitOf(table, TRUE)

DeliverRetry ==
    /\ Idle
    /\ Len(task) < MaxRetryDeliveries
    /\ \E input \in RetryInputs : Webhook(1, Len(task) + 1, input)

NextRetry == DeliverRetry \/ Steps

SpecRetry == InitRetry /\ [][NextRetry]_vars

----------------------------------------------------------------------------
(* One event at a time, well-formed or not: a body without message, a message
   without chat (message.chat.id throws after the 200 was sent), a message
   whose chat has no id *)

MalformedInputs == {Input("no_message", T_empty), Input("no_chat", T_hi)}

DeliverMalformed ==
    /\ Idle
    /\ Len(task) < MaxMalformedDeliveries
    /\ \/ \E input \in RetryInputs \cup MalformedInputs :
              Webhook(1, Len(task) + 1, input)
       \/ Webhook(NoChatId, Len(task) + 1, Input("text", T_hi))

NextMalformed == DeliverMalformed \/ Steps

InitMalformed == \E table \in RetryStartTables : InitWith(table)

SpecMalformed == InitMalformed /\ [][NextMalformed]_vars

----------------------------------------------------------------------------
(* Deliveries of one chat, overlapping when there are several, whose
   callbacks are all run: the event loop runs every queued callback and
   every awaited call settles. *)

StepOf(d) ==
    /\ d \in Tasks
    /\ \/ Filter(d)
       \/ GetUserSessionSelect(d)
       \/ GetUserSessionCreate(d)
       \/ SessionError(d)
       \/ AddProperty(d)
       \/ HandleImage(d)
       \/ SendReply(d)
       \/ UpdateUserSessionSelect(d)
       \/ UpdateUserSessionWrite(d)
       \/ Apology(d)

LiveStartTables ==
    {<< >>, <<SessionRow(1, "awaiting_images", ScenarioData(7), T_hi, 0)>>}

InitLive == \E table \in LiveStartTables : InitWith(table)

LiveInputs == DupInputs \cup {Input("text", T_hi)}

DeliverLive ==
    /\ Len(task) < MaxLiveDeliveries
    /\ \E input \in LiveInputs : Webhook(1, Len(task) + 1, input)

NextLive == DeliverLive \/ Steps

SpecLive ==
    /\ InitLive
    /\ [][NextLive]_vars
    /\ \A d \in 1..MaxLiveDeliveries : WF_vars(StepOf(d))

----------------------------------------------------------------------------
(* Properties *)

HasRow(c) == FirstMatch(sessions, c) > 0

Row(c) == sessions[FirstMatch(sessions, c)]

ReadState(t) == IF t.session = NoSession THEN "none" ELSE CurrentState(t.session)

ReadData(t) == CollectedData(t.session)

LastDone(d) == d = Len(task) /\ task[d].pc = "done"

YesTexts == {T_yes, T_YES}

NoTexts == {T_no, T_No}

DoneTexts == {T_done, T_Done}

SevenFields ==
    {"address", "zip", "bedrooms", "bathrooms", "size", "price", "amenities"}

FlowStates ==
    <<"awaiting_address", "awaiting_zip", "awaiting_bedrooms",
      "awaiting_bathrooms", "awaiting_size", "awaiting_price",
      "awaiting_amenities", "awaiting_confirmation">>

FlowFields ==
    <<"address", "zip", "bedrooms", "bathrooms", "size", "price", "amenities">>

(* C1: the fields are asked in the fixed order address, zip, bedrooms,
   bathrooms, size, price, amenities, one state each: after k processed
   inputs of a conversation the session is in the k-th state of the flow and
   holds exactly the fields asked before it, and a session in
   awaiting_confirmation holds all seven fields. *)
C1_SevenFieldsAtConfirmation ==
    /\ \A i \in 1..Len(sessions) :
          sessions[i].Current_State = "awaiting_confirmation"
          => DOMAIN CollectedData(sessions[i]) = SevenFields
    /\ \A k \in 1..8 :
          (Idle /\ Completed = k)
          => /\ HasRow(1)
             /\ Row(1).Current_State = FlowStates[k]
             /\ DOMAIN CollectedData(Row(1)) = {FlowFields[i] : i \in 1..(k - 1)}

C1_Witness ==
    /\ Idle /\ Completed = 8 /\ HasRow(1)
    /\ Row(1).Current_State = "awaiting_confirmation"
    /\ DOMAIN CollectedData(Row(1)) = SevenFields

Passed(t) == t.pc \notin {"none", "scheduled", "duplicate", "dropped"}

(* C2: of the deliveries that carry one message id at most one is processed;
   every other one is dropped as a duplicate and has written no session,
   appended no record and sent no message, also when the deliveries
   overlap. *)
C2_DuplicateHasNoEffect ==
    /\ \A d \in Tasks : \A e \in Tasks :
          (d # e /\ task[d].mid = task[e].mid) => ~(Passed(task[d]) /\ Passed(task[e]))
    /\ \A d \in Tasks :
          task[d].pc = "duplicate"
          => task[d].sent = << >> /\ task[d].writes = 0 /\ task[d].recs = 0

C2_Witness ==
    \E d \in Tasks : \E e \in Tasks :
        /\ d < e /\ task[d].mid = task[e].mid
        /\ task[e].pc = "duplicate"
        /\ task[d].pc \in {"send", "upd_select", "upd_write", "done"}

Expired(t) ==
    t.session # NoSession /\ t.readAt - t.session.Last_Updated > SESSION_TIMEOUT

(* C3: a session that was last updated longer ago than the session timeout is
   not handed to the conversation: the event is processed from a new session,
   in state initial with no collected data. *)
C3_ExpiredSessionIsNew ==
    \A d \in Tasks :
        Expired(task[d])
        => ReadState(task[d]) = "initial" /\ ReadData(task[d]) = EmptyData

ListingKeys ==
    {<<"Address", "address">>, <<"ZIP", "zip">>, <<"Bedrooms", "bedrooms">>,
     <<"Bathrooms", "bathrooms">>, <<"Size_sqm", "size">>, <<"Price", "price">>,
     <<"Amenities", "amenities">>}

(* rec carries the collected fields of data, a null field left out *)
Carries(rec, data) ==
    \A p \in ListingKeys :
        IF Has(data, p[2]) /\ data[p[2]] # Null
        THEN Has(rec, p[1]) /\ rec[p[1]] = data[p[2]]
        ELSE ~Has(rec, p[1])

YesAtConfirmation(t) ==
    ReadState(t) = "awaiting_confirmation" /\ t.text \in YesTexts

(* C4 as stated: "yes" (in any letter case) in awaiting_confirmation appends
   exactly one listing record and moves the session to awaiting_images. *)
C4_YesPersistsOnce ==
    \A d \in Tasks :
        (YesAtConfirmation(task[d]) /\ task[d].pc = "done")
        => /\ task[d].recs = 1
           /\ d = Len(task) => Row(task[d].chat).Current_State = "awaiting_images"

(* C4: "yes" (in any letter case) in awaiting_confirmation appends no record;
   it moves the session to awaiting_images with the collected data kept.  The
   one record that carries the collected fields is appended by "done" in
   awaiting_images. *)
C4_YesAdvancesDonePersists ==
    /\ \A d \in Tasks :
          YesAtConfirmation(task[d])
          => /\ task[d].recs = 0
             /\ LastDone(d)
                => /\ Row(task[d].chat).Current_State = "awaiting_images"
                   /\ CollectedData(Row(task[d].chat)) = ReadData(task[d])
    /\ \A d \in Tasks :
          (/\ ReadState(task[d]) = "awaiting_images"
           /\ task[d].text \in DoneTexts
           /\ task[d].pc \in {"send", "upd_select", "upd_write", "done"})
          => /\ task[d].recs = 1
             /\ \E i \in 1..Len(properties) :
                   /\ Has(properties[i], "Telegram_ID")
                   /\ properties[i]["Telegram_ID"] = Str(task[d].chat)
                   /\ Carries(properties[i], ReadData(task[d]))

C4_Witness ==
    \E d \in Tasks :
        /\ YesAtConfirmation(task[d]) /\ task[d].text = T_YES /\ LastDone(d)
        /\ Row(task[d].chat).Current_State = "awaiting_images"
        /\ properties = << >>

(* C5: "no" in awaiting_confirmation clears the collected data, moves the
   session to awaiting_address and appends no record. *)
C5_NoStartsOver ==
    \A d \in Tasks :
        (ReadState(task[d]) = "awaiting_confirmation" /\ task[d].text \in NoTexts)
        => /\ task[d].recs = 0
           /\ task[d].pc \notin {"add_property", "handle_image"}
           /\ LastDone(d)
              => /\ Row(task[d].chat).Current_State = "awaiting_address"
                 /\ CollectedData(Row(task[d].chat)) = EmptyData

C5_Witness ==
    \E d \in Tasks :
        /\ ReadState(task[d]) = "awaiting_confirmation" /\ task[d].text \in NoTexts
        /\ LastDone(d)
        /\ ReadData(task[d]) # EmptyData
        /\ CollectedData(Row(task[d].chat)) = EmptyData
        /\ properties = << >>

(* C6: an input in awaiting_confirmation that is neither "yes" nor "no" only
   asks again: the session stays in awaiting_confirmation with its collected
   data. *)
C6_OtherInputReprompts ==
    \A d \in Tasks :
        (/\ ReadState(task[d]) = "awaiting_confirmation"
         /\ task[d].text \notin YesTexts \cup NoTexts
         /\ LastDone(d))
        => /\ Row(task[d].chat).Current_State = "awaiting_confirmation"
           /\ CollectedData(Row(task[d].chat)) = ReadData(task[d])

(* C7: between two confirmations of a chat at most one record is appended to
   the listing table. *)
C7_OneRecordPerConfirmation == \A c \in Chats : cycle[c] <= 1

(* C8: a record is appended only by the confirming "yes"; a photo or "done" in
   awaiting_images appends none. *)
C8_RecordOnlyOnConfirmation ==
    \A d \in Tasks : task[d].recs > 0 => YesAtConfirmation(task[d])

ReadmeRecord(rec) ==
    /\ {"Telegram_ID", "Address", "ZIP", "Bedrooms", "Bathrooms", "Size_sqm",
        "Price", "Amenities"} \subseteq DOMAIN rec
    /\ rec["Telegram_ID"] = Str(1)
    /\ rec["Address"] = Str(T_address) /\ rec["ZIP"] = Str(T_zip)
    /\ rec["Bedrooms"] = Num(3) /\ rec["Bathrooms"] = Num(2)
    /\ rec["Size_sqm"] = Num(120) /\ rec["Price"] = Num(500000)
    /\ rec["Amenities"] = Str(T_pool)

ReadmeData ==
    [f \in SevenFields |->
        CASE f = "address" -> Str(T_address)
          [] f = "zip" -> Str(T_zip)
          [] f = "bedrooms" -> Num(3)
          [] f = "bathrooms" -> Num(2)
          [] f = "size" -> Num(120)
          [] f = "price" -> Num(500000)
          [] f = "amenities" -> Str(T_pool)]

Readme(k) == Len(task) > 0 /\ Script = ReadmeScript /\ Idle /\ Completed = k

(* C9 as stated: after the nine inputs of the README conversation (a greeting,
   "123 Main St", "10001", "3", "2", "120", "500000", "pool", "yes") a record
   with these values is in the listing table and the session is in
   awaiting_images. *)
C9_ReadmePersistedAtYes ==
    Readme(9)
    => /\ Row(1).Current_State = "awaiting_images"
       /\ \E i \in 1..Len(properties) : ReadmeRecord(properties[i])

(* C9: after the nine inputs of the README conversation the session is in
   awaiting_images and holds address "123 Main St", zip "10001", bedrooms 3,
   bathrooms 2, size 120, price 500000, amenities "pool", and the listing
   table holds no record with an address; the record with these values is in
   the table once the closing "done" is processed. *)
C9_ReadmePersistedAtDone ==
    /\ Readme(9)
       => /\ Row(1).Current_State = "awaiting_images"
          /\ CollectedData(Row(1)) = ReadmeData
          /\ \A i \in 1..Len(properties) : ~Has(properties[i], "Address")
    /\ Readme(12)
       => \E i \in 1..Len(properties) : ReadmeRecord(properties[i])

C9_Witness ==
    /\ Readme(12)
    /\ \E i \in 1..Len(properties) : ReadmeRecord(properties[i])

ImageUrls(data) ==
    IF Has(data, "imageUrl") THEN data["imageUrl"].arr ELSE << >>

PhotoTasks ==
    SelectSeq([d \in 1..Len(task) |-> d],
              LAMBDA d : /\ task[d].photo /\ task[d].pc = "done"
                         /\ ReadState(task[d]) = "awaiting_images")

(* C10: a photo processed in awaiting_images appends its URL to the end of
   the collected image list and leaves the session in awaiting_images: the
   list holds the URLs of the processed photos in the order they were
   received. *)
C10_PhotosAppendInOrder ==
    /\ (Idle /\ HasRow(1) /\ Row(1).Current_State = "awaiting_images")
       => ImageUrls(CollectedData(Row(1)))
            = [i \in 1..Len(PhotoTasks) |-> Url(PhotoTasks[i])]
    /\ \A d \in Tasks :
          (LastDone(d) /\ task[d].photo /\ ReadState(task[d]) = "awaiting_images")
          => /\ Row(1).Current_State = "awaiting_images"
             /\ ImageUrls(CollectedData(Row(1)))
                  = Append(ImageUrls(ReadData(task[d])), Url(d))

C10_Witness ==
    /\ Idle /\ HasRow(1) /\ Row(1).Current_State = "awaiting_images"
    /\ Len(PhotoTasks) = 2
    /\ Len(ImageUrls(CollectedData(Row(1)))) = 2

(* C11: "done" (in any letter case) in awaiting_images, once processed,
   leaves the session in state initial with empty collected data. *)
C11_DoneResets ==
    \A d \in Tasks :
        (/\ ReadState(task[d]) = "awaiting_images"
         /\ task[d].text \in DoneTexts
         /\ LastDone(d))
        => /\ Row(task[d].chat).Current_State = "initial"
           /\ CollectedData(Row(task[d].chat)) = EmptyData

C11_Witness ==
    \E d \in Tasks :
        /\ ReadState(task[d]) = "awaiting_images" /\ task[d].text = T_Done
        /\ LastDone(d)
        /\ ReadData(task[d]) # EmptyData
        /\ Row(task[d].chat).Current_State = "initial"

OtherTextAtImages(t) ==
    /\ ReadState(t) = "awaiting_images"
    /\ ~t.photo
    /\ t.text \notin DoneTexts

(* C12: a text other than "done" with no photo in awaiting_images only asks
   again: no session write, no record, no upload, and the stored row (state
   and collected data) is the one that was read. *)
C12_OtherTextAtImagesReprompts ==
    \A d \in Tasks :
        OtherTextAtImages(task[d])
        => /\ task[d].writes = 0 /\ task[d].recs = 0 /\ task[d].uploads = 0
           /\ task[d].pc \in {"send", "done", "apology", "failed"}
           /\ LastDone(d)
              => /\ Row(task[d].chat) = task[d].session
                 /\ task[d].sent = <<"reprompt_images">>

C12_Witness ==
    \E d \in Tasks :
        /\ OtherTextAtImages(task[d]) /\ LastDone(d)
        /\ task[d].text = T_maybe
        /\ Has(ReadData(task[d]), "imageUrl")
        /\ Row(task[d].chat) = task[d].session

(* C13: the session table never holds two rows of one chat. *)
C13_OneRowPerChat ==
    \A c \in Chats : Cardinality(Matching(sessions, c)) <= 1

NotYetAsked(state) ==
    IF state = "initial" THEN SevenFields \cup {"imageUrl"}
    ELSE IF state = "awaiting_confirmation" THEN {"imageUrl"}
    ELSE IF \E k \in 1..7 : FlowStates[k] = state
    THEN {FlowFields[j] : j \in (CHOOSE k \in 1..7 : FlowStates[k] = state)..7}
         \cup {"imageUrl"}
    ELSE {}

(* C14: a stored session holds no field that is asked for in its state or
   later, in the order address, zip, bedrooms, bathrooms, size, price,
   amenities, image URLs: in awaiting_X the field X and the fields after it
   are absent, in initial every field is, and image URLs are present only in
   awaiting_images. *)
C14_NoFieldBeforeItsPrompt ==
    \A i \in 1..Len(sessions) :
        DOMAIN CollectedData(sessions[i])
            \cap NotYetAsked(sessions[i].Current_State) = {}

C14_Witness ==
    \E d \in Tasks :
        /\ LastDone(d) /\ task[d].writes > 0
        /\ Row(task[d].chat).Current_State = "awaiting_bedrooms"
        /\ DOMAIN CollectedData(Row(task[d].chat)) = {"address", "zip"}

EnumeratedStates ==
    {"initial", "awaiting_confirmation", "awaiting_images"}
    \cup {FlowStates[k] : k \in 1..7}

StoredState(t) == t.session.Current_State

ReadUnknown(t) ==
    t.session # NoSession /\ StoredState(t) \notin EnumeratedStates

(* C15 as stated: an event processed against a stored state that is missing
   or not one of the enumerated values ends as the initial transition does:
   state awaiting_address, collected data as it was stored. *)
C15_UnknownStateAsInitial ==
    \A d \in Tasks :
        (ReadUnknown(task[d]) /\ LastDone(d))
        => /\ Row(task[d].chat).Current_State = "awaiting_address"
           /\ CollectedData(Row(task[d].chat)) = ReadData(task[d])

(* C15: a missing stored state is handled as initial: the session moves to
   awaiting_address and keeps its stored collected data.  A stored state that
   is not one of the enumerated values also moves to awaiting_address, but
   with the collected data cleared. *)
C15_MissingAsInitialUnknownCleared ==
    \A d \in Tasks :
        (ReadUnknown(task[d]) /\ LastDone(d))
        => /\ Row(task[d].chat).Current_State = "awaiting_address"
           /\ CollectedData(Row(task[d].chat))
                = IF StoredState(task[d]) = "" THEN ReadData(task[d])
                  ELSE EmptyData
           /\ task[d].sent
                = IF StoredState(task[d]) = "" THEN <<"welcome">>
                  ELSE <<"restart">>

C15_Witness ==
    \E d \in Tasks :
        /\ ReadUnknown(task[d]) /\ LastDone(d)
        /\ StoredState(task[d]) = "awaiting_square_meters"
        /\ ReadData(task[d]) # EmptyData
        /\ CollectedData(Row(task[d].chat)) = EmptyData

(* C16: the set of seen message ids never holds more than CAPACITY (1000)
   entries, however many distinct events were handled. *)
C16_SetWithinCapacity == Cardinality(processedMessages) <= CAPACITY

(* The n last entries of a sequence *)
Newest(seq, n) ==
    IF Len(seq) <= n THEN seq ELSE SubSeq(seq, Len(seq) - n + 1, Len(seq))

Front(seq) == SubSeq(seq, 1, Len(seq) - 1)

(* C17: the Set of keys is trimmed in insertion order: it always holds the
   CAPACITY (1000) keys added last, in the order they were added, so the key
   dropped is the oldest and never the one just added, and a delivery is
   taken as new only if its key is not among the 1000 added last. *)
C17_EvictsOldest ==
    /\ keyed.seen = Newest(keyed.history, CAPACITY)
    /\ keyed.last # NoKeys.last
       => IF keyed.last.dup
          THEN keyed.last.key \in Range(Newest(keyed.history, CAPACITY))
          ELSE /\ keyed.seen[Len(keyed.seen)] = keyed.last.key
               /\ keyed.last.key
                    \notin Range(Newest(Front(keyed.history), CAPACITY))

C17_Witness ==
    /\ Len(keyed.history) > CAPACITY
    /\ Len(keyed.seen) = CAPACITY
    /\ keyed.history[1] \notin Range(keyed.seen)
    /\ keyed.last # NoKeys.last
    /\ keyed.last.dup
    /\ keyed.last.key = keyed.seen[1]

----------------------------------------------------------------------------
StoreOps ==
    {"getUserSession.select", "getUserSession.create",
     "updateUserSession.select", "updateUserSession.update",
     "updateUserSession.create"}

Made(t) == "op" \in DOMAIN t.call

(* The attempts a call makes when it stops at its first success. *)
FirstSuccess(outcomes) ==
    IF \E i \in 1..MAX_RETRIES : outcomes[i]
    THEN CHOOSE i \in 1..MAX_RETRIES :
            outcomes[i] /\ \A j \in 1..(i - 1) : ~outcomes[j]
    ELSE 0

ErrorPath == {"session_error", "apology"}

(* C18: every backend call of getUserSession and updateUserSession (the
   selects, the create and the update) makes at most 3 attempts, returns at
   the first attempt that succeeds, and throws to its caller only when all 3
   attempts failed: the delivery then goes to a catch block, and after a call
   that returned it does not (unless the handling of its photo fails). *)
C18_StoreCallsRetried ==
    \A d \in Tasks :
        LET c == task[d].call
        IN  (Made(task[d]) /\ c.op \in StoreOps) =>
                /\ c.attempts \in 1..MAX_RETRIES
                /\ c.ok <=> FirstSuccess(c.outcomes) > 0
                /\ c.ok => c.attempts = FirstSuccess(c.outcomes)
                /\ ~c.ok => /\ c.attempts = MAX_RETRIES
                            /\ \A i \in 1..MAX_RETRIES : ~c.outcomes[i]
                            /\ task[d].pc \in ErrorPath
                /\ c.ok /\ ~task[d].photo => task[d].pc \notin ErrorPath

(* An update whose first attempt fails and whose second succeeds: two
   attempts, and the row is written. *)
C18_Witness ==
    \E d \in Tasks :
        /\ Made(task[d])
        /\ task[d].call.op = "updateUserSession.update"
        /\ task[d].call.outcomes = <<FALSE, TRUE, FALSE>>
        /\ task[d].call.attempts = 2
        /\ task[d].call.ok
        /\ task[d].pc = "done"
        /\ task[d].writes = 1

----------------------------------------------------------------------------
(* C19: sendTelegramMessage makes at most 3 attempts, stops at the first
   success and throws only after the third failure; and once a send of a
   delivery has thrown, the delivery makes no further send. *)
C19_FailedSendIsLast ==
    \A d \in Tasks :
        LET c == task[d].call
        IN  /\ (Made(task[d]) /\ c.op = "sendTelegramMessage") =>
                    /\ c.attempts \in 1..SEND_MAX_RETRIES
                    /\ c.ok <=> FirstSuccess(c.outcomes) > 0
                    /\ c.ok => c.attempts = FirstSuccess(c.outcomes)
                    /\ ~c.ok => c.attempts = SEND_MAX_RETRIES
            /\ task[d].sendFailedAt > 0 => task[d].sends = task[d].sendFailedAt

----------------------------------------------------------------------------
(* The delivery d has completed updateUserSession, no later delivery has
   written, and the session timeout has not passed since. *)
PutCompleted(d) ==
    /\ LastDone(d)
    /\ task[d].plan.write
    /\ HasRow(task[d].chat)
    /\ now - Row(task[d].chat).Last_Updated <= SESSION_TIMEOUT

(* C20: after updateUserSession(id, state, data, text) has completed, the
   session getUserSession(id) returns has exactly that state and exactly that
   collectedData, no field more and no field less. *)
C20_PutGetRoundTrip ==
    \A d \in Tasks :
        PutCompleted(d) =>
            /\ CurrentState(Row(task[d].chat)) = task[d].plan.state
            /\ CollectedData(Row(task[d].chat)) = task[d].plan.data

----------------------------------------------------------------------------
(* The delivery carried no message, no chat or no chat id. *)
Malformed(t) == t.pc = "dropped" \/ t.chat = NoChatId

(* C21: a delivery with no message, or with a message that has no chat id, is
   answered 200 and dropped: its message id is not added to
   processedMessages, no session row is written for it and no send is
   attempted. *)
C21_MalformedDropped ==
    \A d \in Tasks :
        Malformed(task[d]) =>
            /\ task[d].acked
            /\ task[d].mid \notin processedMessages
            /\ task[d].writes = 0
            /\ task[d].sends = 0
            /\ Matching(sessions, NoChatId) = {}

----------------------------------------------------------------------------
(* C22: the 200 of a well-formed delivery has been sent before its callback
   does anything (duplicate check, session load, image handling, writes,
   sends), and it has been sent whichever way the processing ends. *)
C22_AckedBeforeProcessing ==
    /\ [](\A d \in Tasks : task[d].acked)
    /\ [][\A d \in Tasks : task'[d] # task[d] => task[d].acked]_vars

(* A delivery whose session load failed and one that completed, both
   acknowledged. *)
C22_Witness ==
    \E d \in Tasks :
        /\ task[d].acked
        /\ task[d].pc = "failed"
        /\ Made(task[d])
        /\ task[d].sent = <<"hiccup">>

----------------------------------------------------------------------------
(* C23: when getUserSession finds no session for the chat, or one last updated
   longer ago than the session timeout, the event is processed from a new
   session and completes: the welcome with the first prompt is sent and the
   session is stored in awaiting_address with no collected data. *)
C23_AbsentOrExpiredStartsFresh ==
    \A d \in Tasks :
        (LastDone(d) /\ (task[d].created \/ Expired(task[d]))) =>
            /\ ReadState(task[d]) = "initial"
            /\ ReadData(task[d]) = EmptyData
            /\ task[d].sent = <<"welcome">>
            /\ CurrentState(Row(task[d].chat)) = "awaiting_address"
            /\ CollectedData(Row(task[d].chat)) = EmptyData

----------------------------------------------------------------------------
(* C24: a message with a photo that arrives while the session is not in
   awaiting_images leaves the stored session as it was read: same state, same
   collected data. *)
C24_PhotoElsewhereKeepsSession ==
    \A d \in Tasks :
        (LastDone(d) /\ task[d].photo /\ ReadState(task[d]) # "awaiting_images") =>
            /\ CurrentState(Row(task[d].chat)) = ReadState(task[d])
            /\ CollectedData(Row(task[d].chat)) = ReadData(task[d])

----------------------------------------------------------------------------
(* Two deliveries of one chat that read the same session and both completed
   their updateUserSession, d before e, e being the last put of the chat *)
Overlapped(d, e) ==
    /\ d # e
    /\ task[d].chat = task[e].chat
    /\ task[d].session # NoSession
    /\ task[d].session = task[e].session
    /\ task[d].putAt > 0
    /\ task[d].putAt < task[e].putAt
    /\ \A x \in Tasks : task[x].chat = task[e].chat => task[x].putAt <= task[e].putAt

(* C25: deliveries of one chat are not serialized.  When two of them read
   the same session and both complete, the row holds what the later put
   computed from the session it read: the earlier put's transition is
   overwritten, not merged. *)
C25_LaterPutOverwrites ==
    \A d \in Tasks : \A e \in Tasks :
        Overlapped(d, e) =>
            /\ task[d].pc = "done" /\ task[e].pc = "done"
            /\ CurrentState(Row(task[e].chat)) = task[e].plan.state
            /\ CollectedData(Row(task[e].chat)) = JSONstringify(task[e].plan.data)

(* Two photos read the same awaiting_images session; both are answered and
   both write, and the stored list holds only the later one's URL. *)
C25_Witness ==
    \E d \in Tasks : \E e \in Tasks :
        /\ Overlapped(d, e)
        /\ task[d].photo /\ task[e].photo
        /\ task[d].sent = <<"photo_ok">> /\ task[e].sent = <<"photo_ok">>
        /\ ImageUrls(CollectedData(Row(task[e].chat))) = <<Url(e)>>

----------------------------------------------------------------------------
(* C26: deliveries of different chats do not affect each other.  In
   particular a delivery is dropped as a duplicate only when an earlier
   delivery of its own chat carried the same message id. *)
C26_DuplicateOnlyOfOwnChat ==
    \A d \in Tasks :
        task[d].pc = "duplicate" =>
            \E e \in 1..(d - 1) :
                task[e].chat = task[d].chat /\ task[e].mid = task[d].mid

----------------------------------------------------------------------------
(* C27: an event is handled in the order load, transition, persist, reply:
   when the reply of an event that changes the session has been sent, the
   updateUserSession of that event has completed. *)
C27_PersistBeforeReply ==
    \A d \in Tasks :
        (task[d].plan # NoPlan /\ task[d].plan.write
            /\ Len(task[d].sent) > 0 /\ task[d].sent[1] = task[d].plan.reply)
        => task[d].putAt > 0

----------------------------------------------------------------------------
(* The addProperty of the 'done' of delivery d threw: the call was made and
   left no record. *)
ListingFailed(d) ==
    /\ task[d].plan # NoPlan
    /\ task[d].plan.effect = "addProperty"
    /\ task[d].pc # "add_property"
    /\ task[d].recs = 0

(* C28: when addProperty fails after its retries at 'done', the error is
   caught: the 'saved' reply is not sent, the only message is the apology, and
   the session row is left as it was read, in awaiting_images with its
   collected data. *)
C28_ListingFailureKeepsSession ==
    \A d \in Tasks :
        (d = Len(task) /\ ListingFailed(d)) =>
            /\ task[d].pc \in {"apology", "failed"}
            /\ task[d].sent \in {<< >>, <<"apology">>}
            /\ task[d].writes = 0
            /\ Len(properties) = Cardinality({x \in Tasks : task[x].recs > 0})
            /\ Row(task[d].chat) = task[d].session
            /\ CurrentState(Row(task[d].chat)) = "awaiting_images"

(* 'Done' whose addProperty failed: the apology was sent and the row still
   holds awaiting_images with the seven fields. *)
C28_Witness ==
    \E d \in Tasks :
        /\ ListingFailed(d)
        /\ task[d].pc = "failed"
        /\ task[d].sent = <<"apology">>
        /\ CurrentState(Row(task[d].chat)) = "awaiting_images"
        /\ SevenFields \subseteq DOMAIN CollectedData(Row(task[d].chat))

----------------------------------------------------------------------------
ErrorTexts == {RawError, TablesNotFound, PhotoError}

FixedFailureTexts == {"setup", "hiccup", "apology"}

(* C29: whatever fails (session load, session write, record write, image
   handling, send), each message the delivery sends is the reply of its
   branch, sent before the failure, or one of the three fixed texts of the
   catch blocks; none is the message of the error. *)
C29_NoErrorTextSent ==
    \A d \in Tasks :
        task[d].error # NoError =>
            \A i \in 1..Len(task[d].sent) :
                /\ task[d].sent[i] \notin ErrorTexts
                /\ \/ task[d].sent[i] \in FixedFailureTexts
                   \/ i = 1 /\ task[d].sent[i] = task[d].plan.reply

(* A reply was sent, the session write then failed, and the second message
   is the apology. *)
C29_Witness ==
    \E d \in Tasks :
        /\ task[d].error = RawError
        /\ task[d].putAt = 0
        /\ Len(task[d].sent) = 2
        /\ task[d].sent[1] = task[d].plan.reply
        /\ task[d].sent[2] = "apology"

----------------------------------------------------------------------------
(* handleImage was called for the photo of delivery d and threw: no URL was
   pushed to the collected data. *)
ImageFailed(d) ==
    /\ task[d].plan # NoPlan
    /\ task[d].plan.effect = "handleImage"
    /\ task[d].pc # "handle_image"
    /\ task[d].plan.data = ReadData(task[d])

(* C30: when handleImage fails for a photo received in awaiting_images, at
   whichever step (getFile, download, upload, addProperty, vision), the error
   that reaches the webhook is the one message of handleImage's catch, the
   session row is left as it was read (awaiting_images, same collected data,
   no URL added), and the only message sent is the apology. *)
C30_ImageFailureKeepsSession ==
    \A d \in Tasks :
        (d = Len(task) /\ ImageFailed(d)) =>
            /\ task[d].error = PhotoError
            /\ task[d].pc \in {"apology", "failed"}
            /\ task[d].sent \in {<< >>, <<"apology">>}
            /\ task[d].writes = 0
            /\ Row(task[d].chat) = task[d].session
            /\ CurrentState(Row(task[d].chat)) = "awaiting_images"
            /\ ImageUrls(CollectedData(Row(task[d].chat)))
                    = ImageUrls(ReadData(task[d]))

(* A photo whose analysis failed after the upload: apology sent, the stored
   list of URLs is still the one before the photo. *)
C30_Witness ==
    \E d \in Tasks :
        /\ ImageFailed(d)
        /\ task[d].uploads = 1
        /\ task[d].pc = "failed"
        /\ task[d].sent = <<"apology">>
        /\ ImageUrls(CollectedData(Row(task[d].chat))) = <<Url(0)>>

----------------------------------------------------------------------------
(* C31: every event that was processed to its end has written the session
   row, with its own text as Last_Message and the time of the event as
   Last_Updated, also when it only caused a re-prompt. *)
C31_EveryEventWritesSession ==
    \A d \in Tasks :
        LastDone(d) =>
            /\ task[d].putAt > 0
            /\ Row(task[d].chat).Last_Message = task[d].text
            /\ Row(task[d].chat).Last_Updated = task[d].readAt

----------------------------------------------------------------------------
PrescribedSequence ==
    <<"initial", "awaiting_address", "awaiting_zip", "awaiting_bedrooms",
      "awaiting_bathrooms", "awaiting_size", "awaiting_price",
      "awaiting_amenities", "awaiting_confirmation", "awaiting_images",
      "initial">>

Edges ==
    {<<PrescribedSequence[k], PrescribedSequence[k + 1]>> :
        k \in 1..(Len(PrescribedSequence) - 1)}
    \cup {<<"awaiting_confirmation", "awaiting_address">>}
    \cup {<<PrescribedSequence[k], PrescribedSequence[k]>> :
            k \in 1..Len(PrescribedSequence)}

(* C32: the stored state of a chat changes only along an edge of the
   prescribed sequence, the reset from awaiting_confirmation to
   awaiting_address or a self-loop, and a new row starts in initial: each
   event writes a state that is one edge from the state it read. *)
C32_StateFollowsEdges ==
    /\ [](\A d \in Tasks :
            (task[d].plan # NoPlan /\ task[d].plan.write)
            => <<ReadState(task[d]), task[d].plan.state>> \in Edges)
    /\ [][\A c \in Chats :
            LET i == FirstMatch(sessions, c)
                j == FirstMatch(sessions', c)
            IN  /\ (i = 0 /\ j > 0) => CurrentState(sessions'[j]) = "initial"
                /\ (i > 0) =>
                      /\ j = i
                      /\ <<CurrentState(sessions[i]), CurrentState(sessions'[i])>>
                            \in Edges]_vars

(* The "no" at the confirmation: read in awaiting_confirmation, stored as
   awaiting_address. *)
C32_Witness ==
    \E d \in Tasks :
        /\ LastDone(d)
        /\ ReadState(task[d]) = "awaiting_confirmation"
        /\ task[d].putAt > 0
        /\ CurrentState(Row(task[d].chat)) = "awaiting_address"

----------------------------------------------------------------------------
(* C33: every queued callback ends, whichever of its calls fail: it makes at
   most two sendTelegramMessage calls, none of its calls makes more than 3
   attempts, and it reaches one of its ends (done, failed, duplicate). *)
C33_EveryTaskTerminates ==
    /\ [](\A d \in Tasks :
            /\ task[d].sends <= 2
            /\ Made(task[d]) => task[d].call.attempts <= MAX_RETRIES)
    /\ \A d \in 1..MaxLiveDeliveries :
            (Len(task) >= d) ~> (Len(task) >= d /\ task[d].pc \in Finished)

(* A delivery whose reply send and apology send both failed has ended. *)
C33_Witness ==
    \E d \in Tasks :
        /\ task[d].pc = "failed"
        /\ task[d].sends = 2
        /\ task[d].sendFailedAt = 1
        /\ task[d].sent = << >>

----------------------------------------------------------------------------
(* C34: the check of the message id and its marking are one step of the
   callback: a delivery that passed the check has its id in the Set, and once
   a delivery passed, every other delivery of the same id, also one in flight
   at the same time, is held or dropped without a call to the store. *)
C34_CheckAndMarkAtomic ==
    /\ \A d \in Tasks : Passed(task[d]) => task[d].mid \in processedMessages
    /\ \A d \in Tasks : \A e \in Tasks :
          (d # e /\ task[d].mid = task[e].mid /\ Passed(task[d]))
          => /\ task[e].pc \in {"scheduled", "duplicate"}
             /\ task[e].call = NoCall
             /\ task[e].session = NoSession

(* The first delivery is still waiting for getUserSession when the second
   delivery of the same id has been dropped. *)
C34_Witness ==
    \E d \in Tasks : \E e \in Tasks :
        /\ d < e /\ task[d].mid = task[e].mid
        /\ task[d].pc = "get_select" /\ task[d].call = NoCall
        /\ task[e].pc = "duplicate"

----------------------------------------------------------------------------
(* C35: a message id is added to the Set before the callback's first call and
   no step takes an id out of the Set; so when the processing of a delivery
   has failed, whether at the session load, at a send or at a write, every
   other delivery of the same id that has run was dropped as a duplicate,
   having written no session, appended no record and sent no message. *)
C35_FailedEventStaysSeen ==
    /\ [][processedMessages \subseteq processedMessages']_vars
    /\ [](\A d \in Tasks :
            (Made(task[d]) \/ task[d].sends > 0)
            => task[d].mid \in processedMessages)
    /\ [](\A d \in Failing(task) : \A e \in Tasks :
            (d # e /\ task[d].mid = task[e].mid /\ task[e].pc # "scheduled")
            => /\ task[e].pc = "duplicate"
               /\ task[e].sent = << >> /\ task[e].sends = 0
               /\ task[e].writes = 0 /\ task[e].recs = 0
               /\ task[e].putAt = 0)

(* The first delivery failed at its updateUserSession after its reply and
   ended in the catch; the redelivery of its id was dropped. *)
C35_Witness ==
    \E d \in Tasks : \E e \in Tasks :
        /\ d < e /\ task[d].mid = task[e].mid
        /\ task[d].pc = "failed"
        /\ Len(task[d].sent) > 0 /\ task[d].writes = 0
        /\ task[e].pc = "duplicate"

----------------------------------------------------------------------------
(* C36: once the updateUserSession of a 'done' has stored state initial with
   empty data, a photo of the same chat that had read the session before
   that, in awaiting_images, does not store awaiting_images with the data it
   read. *)
C36_ResetNotUndone ==
    \A d \in Tasks : \A e \in Tasks :
        (/\ Overlapped(d, e)
         /\ task[d].plan.reply = "saved" /\ task[d].plan.state = "initial"
         /\ task[e].photo /\ ReadState(task[e]) = "awaiting_images")
        => ~(/\ CurrentState(Row(task[e].chat)) = "awaiting_images"
             /\ \A k \in DOMAIN ReadData(task[e]) :
                    /\ k \in DOMAIN CollectedData(Row(task[e].chat))
                    /\ k # "imageUrl" =>
                          CollectedData(Row(task[e].chat))[k] = ReadData(task[e])[k])

----------------------------------------------------------------------------
(* C37: a stored row in state initial has empty Collected_Data: the two
   writes of state initial, the create of getUserSession and the
   updateUserSession of 'done', store {}; and an event that read state
   initial stores awaiting_address with empty data. *)
C37_InitialHasNoData ==
    /\ \A i \in 1..Len(sessions) :
          sessions[i].Current_State = "initial"
          => sessions[i].Collected_Data = JSONstringify(EmptyData)
    /\ \A d \in Tasks :
          task[d].plan # NoPlan
          => /\ task[d].plan.state = "initial" => task[d].plan.data = EmptyData
             /\ ReadState(task[d]) = "initial"
                => /\ task[d].plan.state = "awaiting_address"
                   /\ task[d].plan.data = EmptyData

(* A 'done' stored initial over a session that held the seven fields, and a
   later event that read initial stored awaiting_address with no field. *)
C37_Witness ==
    \E d \in Tasks : \E e \in Tasks :
        /\ task[d].plan # NoPlan /\ task[d].plan.reply = "saved"
        /\ DOMAIN ReadData(task[d]) = SevenFields
        /\ task[d].putAt > 0
        /\ ReadState(task[e]) = "initial"
        /\ task[e].putAt > task[d].putAt
        /\ Row(task[e].chat).Current_State = "awaiting_address"
        /\ Row(task[e].chat).Collected_Data = JSONstringify(EmptyData)

----------------------------------------------------------------------------
(* C38: when the reply of a data-collection step (awaiting_address up to
   awaiting_amenities) fails after its 3 attempts, updateUserSession is not
   called: the stored row is the row that was read, with its state, its
   collected data, its last message and its time. *)
C38_FailedReplyKeepsSession ==
    \A d \in Tasks :
        (/\ d = Len(task)
         /\ task[d].sendFailedAt = 1
         /\ \E i \in 1..Len(CollectionStates) :
                CollectionStates[i] = ReadState(task[d]))
        => /\ HasRow(task[d].chat)
           /\ Row(task[d].chat) = task[d].session
           /\ task[d].writes = 0 /\ task[d].putAt = 0
           /\ task[d].pc \in {"apology", "failed"}

(* The reply to the price failed; the row is still in awaiting_price and the
   callback ended in the catch. *)
C38_Witness ==
    \E d \in Tasks :
        /\ d = Len(task)
        /\ task[d].sendFailedAt = 1
        /\ task[d].pc = "failed"
        /\ ReadState(task[d]) = "awaiting_price"
        /\ Row(task[d].chat).Current_State = "awaiting_price"
        /\ task[d].plan.state = "awaiting_amenities"

----------------------------------------------------------------------------
(* The getUserSession of the delivery d failed after its retries. *)
LoadFailed(d) ==
    /\ task[d].session = NoSession
    /\ task[d].pc \in {"session_error", "apology", "failed"}

(* C39: when getUserSession fails after its retries, processMessage is not
   called, the event writes no session row and appends no record, exactly
   one sendTelegramMessage call is made for it, and the callback ends. *)
C39_LoadFailureOneApology ==
    \A d \in Tasks :
        LoadFailed(d)
        => /\ task[d].plan.effect = "none" /\ ~task[d].plan.write
           /\ task[d].writes = 0 /\ task[d].recs = 0 /\ task[d].putAt = 0
           /\ task[d].pc = "failed" => task[d].sends = 1

----------------------------------------------------------------------------
(* C40: every delivery that carries a message with a chat and is not a
   duplicate leads to at least one call of sendTelegramMessage to its chat,
   the reply or an apology: a callback that has ended has made one, and
   every such delivery gets there. *)
C40_EveryEventIsAnswered ==
    /\ [](\A d \in Tasks :
            task[d].pc \in {"done", "failed"} => task[d].sends >= 1)
    /\ \A d \in 1..MaxLiveDeliveries :
            (Len(task) >= d) ~> (Len(task) >= d /\ task[d].sends >= 1)

(* A text that is neither 'done' nor a photo in awaiting_images changes
   nothing in the store and is still answered. *)
C40_Witness ==
    \E d \in Tasks :
        /\ task[d].pc = "done"
        /\ task[d].sent = <<"reprompt_images">>
        /\ task[d].sends = 1
        /\ task[d].writes = 0 /\ task[d].recs = 0

====
